---- MODULE Spec2Model ----
(***************************************************************************)
(* A model of faiss::index::bloom (src/src/index/bloom.rs): the Segment    *)
(* bitmap over the 16-bit values and the BloomCache built from segments.   *)
(*                                                                         *)
(* A Segment's data is the array [u8; 8192].  It is held here as the map   *)
(* of its non-zero bytes: a byte offset that is not in the map holds 0.    *)
(* set only ever ORs a non-zero mask into a byte, so the map of a segment  *)
(* is unique and two segments are equal exactly when their arrays are.     *)
(***************************************************************************)
EXTENDS Integers, Sequences, FiniteSets, TLC

\* ---------------------------------------------------------------- bounds

\* Largest num_segments handed to BloomCache::new.
MaxSegments == 2

\* Longest byte buffer handed to add and should_reject.
MaxBufLen == 4

\* Most add calls between two resets.
MaxAdds == 2

\* ------------------------------------------------------ program constants

\* Segment.data: Box<[u8; 8192]>
SegmentBytes == 8192

\* get_setbits: (0..=65535u16)
MaxIndex == 65535

\* The byte values buffers are built from: 0u8 and 255u8 as in the
\* documentation example of BloomCache.
ByteVals == {0, 255}

Buffers == UNION {[1..len -> ByteVals] : len \in 0..MaxBufLen}

\* The radii handed to should_reject: a negative one, and up to one past the
\* largest number of segments.
Radii == -1..(MaxSegments + 1)

\* ------------------------------------------------------------- integers

\* 1 << bit_offset on a u8, for the bit offsets 0..7.
Shl1(bit_offset) == <<1, 2, 4, 8, 16, 32, 64, 128>>[bit_offset + 1]

\* byte & (1 << bit_offset) != 0: the bit of weight 2^bit_offset of the byte.
BitAnd1(byte, bit_offset) == (byte \div Shl1(bit_offset)) % 2 = 1

\* byte | (1 << bit_offset): the byte with that bit set.
BitOr1(byte, bit_offset) ==
    IF BitAnd1(byte, bit_offset) THEN byte ELSE byte + Shl1(bit_offset)

\* A usize of a 64-bit target as four 16-bit limbs, most significant first
\* (the value does not fit the model checker's integers).
UsizeOfLen(n) == <<0, 0, n \div 65536, n % 65536>>

\* A conversion that saturates: a negative radius becomes 0.
AsUsize_saturating(radius) ==
    IF radius >= 0 THEN <<0, 0, radius \div 65536, radius % 65536>>
    ELSE <<0, 0, 0, 0>>

\* acceptance_radius as usize: an i32 is sign-extended to the width of usize
\* and reinterpreted, so a negative radius becomes 2^64 + radius.
AsUsize(radius) ==
    IF radius >= 0 THEN <<0, 0, radius \div 65536, radius % 65536>>
    ELSE LET low == (radius + 2147483647) + 1      \* radius + 2^31, in 0..2^31-1
         IN  <<65535, 65535, 32768 + (low \div 65536), low % 65536>>

\* a >= b on usize: the most significant limb that differs decides.
UsizeGeq(a, b) ==
    IF a[1] # b[1] THEN a[1] > b[1]
    ELSE IF a[2] # b[2] THEN a[2] > b[2]
    ELSE IF a[3] # b[3] THEN a[3] > b[3]
    ELSE a[4] >= b[4]

\* -------------------------------------------------------------- Segment

\* Segment::default / Segment::empty: data = [0u8; 8192].
SegmentDefault == [data |-> <<>>]

\* (*self.data)[byte_offset]: the read panics outside 0..8191.
InBounds(byte_offset) == byte_offset \in 0..(SegmentBytes - 1)

Byte(self, byte_offset) ==
    IF byte_offset \in DOMAIN self.data THEN self.data[byte_offset] ELSE 0

\* Segment::get
get(self, index) ==
    LET byte_offset == index \div 8
        bit_offset  == 7 - (index % 8)
        byte        == Byte(self, byte_offset)
    IN  BitAnd1(byte, bit_offset)

\* set storing the mask in the byte instead of ORing it in.
set_overwrites(self, index) ==
    LET byte_offset == index \div 8
        bit_offset  == 7 - (index % 8)
    IN  IF byte_offset \in DOMAIN self.data
        THEN [data |-> [self.data EXCEPT ![byte_offset] = Shl1(bit_offset)]]
        ELSE [data |-> (byte_offset :> Shl1(bit_offset)) @@ self.data]

\* set counting the bits of a byte from the least significant one.
set_lsb_first(self, index) ==
    LET byte_offset == index \div 8
        bit_offset  == index % 8
        byte        == BitOr1(Byte(self, byte_offset), bit_offset)
    IN  IF byte_offset \in DOMAIN self.data
        THEN [data |-> [self.data EXCEPT ![byte_offset] = byte]]
        ELSE [data |-> (byte_offset :> byte) @@ self.data]

\* Segment::set
set(self, index) ==
    LET byte_offset == index \div 8
        bit_offset  == 7 - (index % 8)
        byte        == BitOr1(Byte(self, byte_offset), bit_offset)
    IN  IF byte_offset \in DOMAIN self.data
        THEN [data |-> [self.data EXCEPT ![byte_offset] = byte]]
        ELSE [data |-> (byte_offset :> byte) @@ self.data]

\* (start..=end): the values of an inclusive range, in order.
RangeInclusive(start, end) == [i \in 1..(end - start + 1) |-> start + i - 1]

\* (0..=65535u16)
AllIndices == RangeInclusive(0, MaxIndex)

\* get_setbits over the range 0..65535 without its end.
get_setbits_exclusive(self) ==
    SelectSeq(RangeInclusive(0, MaxIndex - 1), LAMBDA index : get(self, index))

\* Segment::get_setbits, collected.
get_setbits(self) ==
    SelectSeq(AllIndices, LAMBDA index : get(self, index))

\* tests::segment_ops, its loop over the indices first..=end_: each index
\* is asserted unset, set, and asserted set; a failed assertion ends the
\* test. The halves of the range are run one after the other, so the indices
\* are visited in ascending order.
RECURSIVE segment_ops_loop(_, _, _)
segment_ops_loop(run, first, end_) ==
    IF first = end_
    THEN LET after == set(run.segment, first)
         IN  [segment |-> after,
              passed  |-> ~get(run.segment, first) /\ get(after, first)]
    ELSE LET mid  == (first + end_) \div 2
             left == segment_ops_loop(run, first, mid)
         IN  IF ~left.passed THEN left
             ELSE segment_ops_loop(left, mid + 1, end_)

\* tests::segment_ops on its new segment: it has no set bit; after the loop
\* the set bits are the full range 0..=65535.
segment_ops(new_segment) ==
    LET run == segment_ops_loop(
                   [segment |-> new_segment,
                    passed  |-> get_setbits(new_segment) = <<>>],
                   0, MaxIndex)
        setbits == get_setbits(run.segment)
    IN  [segment |-> run.segment,
         passed  |-> run.passed /\ setbits # <<>> /\ setbits = AllIndices]

\* --------------------------------------------------------------- chunks

\* chunks(2) in place of chunks_exact(2), a short last chunk read with a
\* zero low byte: the trailing odd byte is a chunk of its own.
chunks_padded(bytes) ==
    [k \in 1..((Len(bytes) + 1) \div 2) |->
        <<bytes[2 * k - 1], IF 2 * k <= Len(bytes) THEN bytes[2 * k] ELSE 0>>]

\* vectors.chunks_exact(2): the complete 2-byte chunks; a trailing odd byte
\* is left in the remainder.
chunks_exact(bytes) ==
    [k \in 1..(Len(bytes) \div 2) |-> <<bytes[2 * k - 1], bytes[2 * k]>>]

\* u16::from_be_bytes
from_be_bytes(chunk) == chunk[1] * 256 + chunk[2]

Min(a, b) == IF a <= b THEN a ELSE b

\* ----------------------------------------------------------- BloomCache

\* BloomCache::new
new(num_segments) ==
    [segments |-> [i \in 1..num_segments |-> SegmentDefault], size |-> 0]

\* add pairing chunk k with segment k, without cycling: the chunks past the
\* last segment are dropped.
RECURSIVE add_loop_positional(_, _, _)
add_loop_positional(segments, chunks, k) ==
    IF k > Min(Len(chunks), Len(segments)) THEN segments
    ELSE add_loop_positional(
             [segments EXCEPT ![k] = set(@, from_be_bytes(chunks[k]))],
             chunks, k + 1)

\* The loop of add overwriting the slot with the one value instead of
\* setting the value in it.
RECURSIVE add_loop_replacing(_, _, _)
add_loop_replacing(segments, chunks, k) ==
    IF k > Len(chunks) \/ Len(segments) = 0 THEN segments
    ELSE LET segment_index == (k - 1) % Len(segments)
             value         == from_be_bytes(chunks[k])
         IN  add_loop_replacing(
                 [segments EXCEPT ![segment_index + 1] = set(SegmentDefault, value)],
                 chunks, k + 1)

\* The loop of add from its k-th pair on: chunks.zip((0..len).cycle()) pairs
\* chunk k (counted from 0) with index k mod len, and yields nothing when
\* there is no segment to cycle over.
RECURSIVE add_loop(_, _, _)
add_loop(segments, chunks, k) ==
    IF k > Len(chunks) \/ Len(segments) = 0 THEN segments
    ELSE LET segment_index == (k - 1) % Len(segments)
             value         == from_be_bytes(chunks[k])
         IN  add_loop([segments EXCEPT ![segment_index + 1] = set(@, value)],
                      chunks, k + 1)

\* add counting the vectors a buffer encodes instead of the calls.
add_counts_vectors(self, vectors) ==
    [segments |-> add_loop(self.segments, chunks_exact(vectors), 1),
     size     |-> self.size + (IF Len(self.segments) = 0 THEN 1
                               ELSE Len(chunks_exact(vectors)) \div Len(self.segments))]

\* BloomCache::add
add(self, vectors) ==
    [segments |-> add_loop(self.segments, chunks_exact(vectors), 1),
     size     |-> self.size + 1]

\* The loop rejecting as soon as the misses reach the radius.
RECURSIVE reject_loop_reaches(_, _, _, _, _)
reject_loop_reaches(segments, chunks, acceptance_radius, k, misses) ==
    IF k > Min(Len(chunks), Len(segments)) THEN FALSE
    ELSE IF ~get(segments[k], from_be_bytes(chunks[k]))
         THEN IF misses + 1 >= acceptance_radius THEN TRUE
              ELSE reject_loop_reaches(segments, chunks, acceptance_radius, k + 1, misses + 1)
         ELSE reject_loop_reaches(segments, chunks, acceptance_radius, k + 1, misses)

\* The loop counting a value that was seen as a miss.
RECURSIVE reject_loop_inverted(_, _, _, _, _)
reject_loop_inverted(segments, chunks, acceptance_radius, k, misses) ==
    IF k > Min(Len(chunks), Len(segments)) THEN FALSE
    ELSE IF get(segments[k], from_be_bytes(chunks[k]))
         THEN IF misses + 1 > acceptance_radius THEN TRUE
              ELSE reject_loop_inverted(segments, chunks, acceptance_radius, k + 1, misses + 1)
         ELSE reject_loop_inverted(segments, chunks, acceptance_radius, k + 1, misses)

\* The loop pairing chunk k with segment k mod len, cycling as add does, over
\* all the chunks of the query.
RECURSIVE reject_loop_cyclic(_, _, _, _, _)
reject_loop_cyclic(segments, chunks, acceptance_radius, k, misses) ==
    IF k > Len(chunks) \/ Len(segments) = 0 THEN FALSE
    ELSE IF ~get(segments[((k - 1) % Len(segments)) + 1], from_be_bytes(chunks[k]))
         THEN IF misses + 1 > acceptance_radius THEN TRUE
              ELSE reject_loop_cyclic(segments, chunks, acceptance_radius, k + 1, misses + 1)
         ELSE reject_loop_cyclic(segments, chunks, acceptance_radius, k + 1, misses)

\* The loop rejecting on a miss while the misses are within the radius.
RECURSIVE reject_loop_within(_, _, _, _, _)
reject_loop_within(segments, chunks, acceptance_radius, k, misses) ==
    IF k > Min(Len(chunks), Len(segments)) THEN FALSE
    ELSE IF ~get(segments[k], from_be_bytes(chunks[k]))
         THEN IF misses + 1 <= acceptance_radius THEN TRUE
              ELSE reject_loop_within(segments, chunks, acceptance_radius, k + 1, misses + 1)
         ELSE reject_loop_within(segments, chunks, acceptance_radius, k + 1, misses)

\* The loop of should_reject from its k-th pair on: chunks.zip(segments)
\* pairs chunk k with segment k and stops at the shorter of the two.
RECURSIVE reject_loop(_, _, _, _, _)
reject_loop(segments, chunks, acceptance_radius, k, misses) ==
    IF k > Min(Len(chunks), Len(segments)) THEN FALSE
    ELSE IF ~get(segments[k], from_be_bytes(chunks[k]))
         THEN IF misses + 1 > acceptance_radius THEN TRUE
              ELSE reject_loop(segments, chunks, acceptance_radius, k + 1, misses + 1)
         ELSE reject_loop(segments, chunks, acceptance_radius, k + 1, misses)

\* should_reject answering true, not false, to a radius that covers every segment.
should_reject_large_radius(self, query, acceptance_radius) ==
    IF UsizeGeq(AsUsize(acceptance_radius), UsizeOfLen(Len(self.segments)))
    THEN TRUE
    ELSE reject_loop(self.segments, chunks_exact(query), acceptance_radius, 1, 0)

\* BloomCache::should_reject
should_reject(self, query, acceptance_radius) ==
    IF UsizeGeq(AsUsize(acceptance_radius), UsizeOfLen(Len(self.segments)))
    THEN FALSE
    ELSE reject_loop(self.segments, chunks_exact(query), acceptance_radius, 1, 0)

\* reset zeroing the count and leaving the segments as they are.
reset_keeps_segments(self) == [segments |-> self.segments, size |-> 0]

\* BloomCache::reset: self.segments.clear() empties the Vec of segments.
reset(self) == [segments |-> <<>>, size |-> 0]

\* BloomCache::len
len(self) == self.size

\* BloomCache::is_empty
is_empty(self) == self.size = 0

\* ---------------------------------------------------------------- state

\* No buffer is watched.
NoVector == <<-1>>

\* The indices handed to Segment::set and Segment::get: the ends of the
\* range, the two ends of the first and of the last byte, and the index of
\* the documentation example of Segment.
Indices == {0, 7, 8000, 65528, 65535}

VARIABLES
    cache,          \* the BloomCache: [segments, size]
    num_segments,   \* the argument BloomCache::new was called with
    calls,          \* the number of add calls since construction or the last reset
    watched,        \* one of the buffers added since construction or the last
                    \* reset, whichever (every such buffer is the watched one in
                    \* some behaviour), or NoVector
    tracked,        \* the chunks of the buffers of the tracked add calls since
                    \* construction or the last reset, as pairs of the chunk's
                    \* position in its buffer (counted from 0) and its value
    last,           \* the last call and what it returned (a reset: the number
                    \* of add calls it dropped)
    segment,        \* a Segment of its own
    seen,           \* the indices handed to set on it
    seg_last,       \* the last call on it and what it returned
    readers         \* the read call each concurrent reader of the cache is
                    \* in, with its arguments and locals, or what it returned

cache_vars == <<cache, num_segments, calls, watched, tracked, last>>

segment_vars == <<segment, seen, seg_last>>

vars == <<cache, num_segments, calls, watched, tracked, last, segment, seen, seg_last, readers>>

\* BloomCache::new(num_segments) for one of the given numbers of segments.
CacheInit(numbers) ==
    /\ num_segments \in numbers
    /\ cache = new(num_segments)
    /\ calls = 0
    /\ watched = NoVector
    /\ tracked = {}
    /\ last = [op |-> "new"]

\* Segment::empty()
SegmentInit ==
    /\ segment = SegmentDefault
    /\ seen = {}
    /\ seg_last = [op |-> "empty"]

\* The threads that read the cache through a shared reference.
Readers == {"r1", "r2"}

\* A reader that is in no call.
Idle == [pc |-> "idle"]

ReadersInit == readers = [i \in Readers |-> Idle]

Init == CacheInit(0..MaxSegments) /\ SegmentInit /\ ReadersInit

\* add(vectors); the call is watched or not, as watchings allows.
AddOf(watchings) ==
    \E vectors \in Buffers, watching \in watchings :
        /\ calls < MaxAdds
        /\ cache' = add(cache, vectors)
        /\ calls' = calls + 1
        /\ watched' = IF watching THEN vectors ELSE watched
        /\ last' = [op |-> "add", watching |-> watching]
        /\ UNCHANGED <<num_segments, tracked, segment_vars, readers>>

Add == AddOf({FALSE})

AddWatched == AddOf(BOOLEAN)

ShouldReject ==
    \E query \in Buffers, acceptance_radius \in Radii :
        /\ last' = [op |-> "should_reject",
                    ret |-> should_reject(cache, query, acceptance_radius)]
        /\ UNCHANGED <<cache, num_segments, calls, watched, tracked, segment_vars, readers>>

Reset ==
    /\ cache' = reset(cache)
    /\ calls' = 0
    /\ watched' = NoVector
    /\ tracked' = {}
    /\ last' = [op |-> "reset", dropped |-> calls]
    /\ UNCHANGED <<num_segments, segment_vars, readers>>

LenCall ==
    /\ last' = [op |-> "len", ret |-> len(cache)]
    /\ UNCHANGED <<cache, num_segments, calls, watched, tracked, segment_vars, readers>>

IsEmpty ==
    /\ last' = [op |-> "is_empty", ret |-> is_empty(cache)]
    /\ UNCHANGED <<cache, num_segments, calls, watched, tracked, segment_vars, readers>>

Next == Add \/ ShouldReject \/ Reset \/ LenCall \/ IsEmpty

Spec == Init /\ [][Next]_vars

\* The calls that change the cache, with one of the added buffers watched
\* (should_reject, len and is_empty leave the cache as it is).
NextWatched == AddWatched \/ Reset

SpecWatched == Init /\ [][NextWatched]_vars

\* The calls that change the cache, with no buffer watched.
NextAdds == Add \/ Reset

SpecAdds == Init /\ [][NextAdds]_vars

\* The chunks of a buffer, each with its position in the buffer (from 0).
PlacedChunks(vectors) ==
    {<<k - 1, from_be_bytes(chunks_exact(vectors)[k])>> :
        k \in 1..Len(chunks_exact(vectors))}

\* add(vectors), tracked.
AddTracked ==
    \E vectors \in Buffers :
        /\ calls < MaxAdds
        /\ cache' = add(cache, vectors)
        /\ calls' = calls + 1
        /\ tracked' = tracked \cup PlacedChunks(vectors)
        /\ last' = [op |-> "add", watching |-> FALSE]
        /\ UNCHANGED <<num_segments, watched, segment_vars, readers>>

\* The calls that change the cache, with every add call tracked.
NextTracked == AddTracked \/ Reset

SpecTracked == Init /\ [][NextTracked]_vars

\* ------------------------------------------------------ a Segment alone

SegSet ==
    \E index \in Indices :
        /\ segment' = set(segment, index)
        /\ seen' = seen \cup {index}
        /\ seg_last' = [op |-> "set", index |-> index]
        /\ UNCHANGED <<cache_vars, readers>>

SegGet ==
    \E index \in Indices :
        /\ seg_last' = [op |-> "get", index |-> index, ret |-> get(segment, index)]
        /\ UNCHANGED <<cache_vars, segment, seen, readers>>

SegGetSetbits ==
    /\ seg_last' = [op |-> "get_setbits", ret |-> get_setbits(segment)]
    /\ UNCHANGED <<cache_vars, segment, seen, readers>>

\* tests::segment_ops, run on a new segment.
SegmentOps ==
    /\ seg_last.op = "empty"
    /\ LET run == segment_ops(segment)
       IN  /\ segment' = run.segment
           /\ seg_last' = [op |-> "segment_ops", passed |-> run.passed]
    /\ seen' = 0..MaxIndex
    /\ UNCHANGED <<cache_vars, readers>>

NextSegment == SegSet \/ SegGet \/ SegGetSetbits \/ SegmentOps

InitSegment == CacheInit({0}) /\ SegmentInit /\ ReadersInit

SpecSegment == InitSegment /\ [][NextSegment]_vars

\* --------------------------------------------------- concurrent readers

\* The queries of the readers: the buffers of one chunk or more whose bytes
\* are all the same.
ReaderQueries == {q \in Buffers : Len(q) >= 2 /\ \A j \in DOMAIN q : q[j] = q[1]}

\* The radii of the readers: those below the largest number of segments.
ReaderRadii == {r \in Radii : 0 <= r /\ r < MaxSegments}

\* The values the readers hand to Segment::get: the chunks of their queries.
ReaderIndices == {from_be_bytes(<<x, x>>) : x \in ByteVals}

\* The read calls a reader can enter on the cache: should_reject, len and
\* is_empty, and, on a segment reached through iter_segments, get and
\* get_setbits (the iterator starts at index 0 and has yielded nothing).
ReaderCalls(self) ==
    {[pc |-> "should_reject", query |-> q, acceptance_radius |-> r] :
        q \in ReaderQueries, r \in ReaderRadii}
    \cup {[pc |-> "len"], [pc |-> "is_empty"]}
    \cup {[pc |-> "get", s |-> s, index |-> v] :
            s \in DOMAIN self.segments, v \in ReaderIndices}
    \cup {[pc |-> "get_setbits", s |-> s, from |-> 0, yielded |-> <<>>] :
            s \in DOMAIN self.segments}

\* What a reader holds when its call has returned.
Done(op, ret) == [pc |-> "done", op |-> op, ret |-> ret]

\* The smallest element of a non-empty set of integers.
Least(S) == CHOOSE v \in S : \A w \in S : v <= w

\* Filter::next of get_setbits from index from on: the first index at or
\* after from that get reports, or none. A byte that is not in the map is
\* 0 and reports nothing, so the scan skips to the bytes of the map.
NextSetBit(self, from) ==
    {v \in {8 * byte_offset + i : byte_offset \in DOMAIN self.data, i \in 0..7} :
        v >= from /\ get(self, v)}

\* A reader enters a call.
ReadBegin(i) ==
    /\ readers[i] = Idle
    /\ \E call \in ReaderCalls(cache) : readers' = [readers EXCEPT ![i] = call]
    /\ UNCHANGED <<cache_vars, segment_vars>>

\* should_reject up to its loop: the comparison of the radius with the number
\* of segments.
ReadShouldRejectEntry(i) ==
    /\ readers[i].pc = "should_reject"
    /\ readers' = [readers EXCEPT ![i] =
           IF UsizeGeq(AsUsize(@.acceptance_radius), UsizeOfLen(Len(cache.segments)))
           THEN Done("should_reject", FALSE)
           ELSE [pc |-> "loop", query |-> @.query,
                 acceptance_radius |-> @.acceptance_radius, k |-> 1, misses |-> 0]]
    /\ UNCHANGED <<cache_vars, segment_vars>>

\* A pass of the loop that keeps its count of passes in the size field of
\* the cache: a reader that writes.
ReadShouldRejectLoop_counting(i) ==
    /\ readers[i].pc = "loop"
    /\ LET call   == readers[i]
           chunks == chunks_exact(call.query)
       IN  readers' = [readers EXCEPT ![i] =
               IF call.k > Min(Len(chunks), Len(cache.segments))
               THEN Done("should_reject", FALSE)
               ELSE IF ~get(cache.segments[call.k], from_be_bytes(chunks[call.k]))
                    THEN IF call.misses + 1 > call.acceptance_radius
                         THEN Done("should_reject", TRUE)
                         ELSE [call EXCEPT !.k = @ + 1, !.misses = @ + 1]
                    ELSE [call EXCEPT !.k = @ + 1]]
    /\ cache' = [cache EXCEPT !.size = @ + 1]
    /\ UNCHANGED <<num_segments, calls, watched, tracked, last, segment_vars>>

\* One pass of the loop of should_reject (one step of reject_loop).
ReadShouldRejectLoop(i) ==
    /\ readers[i].pc = "loop"
    /\ LET call   == readers[i]
           chunks == chunks_exact(call.query)
       IN  readers' = [readers EXCEPT ![i] =
               IF call.k > Min(Len(chunks), Len(cache.segments))
               THEN Done("should_reject", FALSE)
               ELSE IF ~get(cache.segments[call.k], from_be_bytes(chunks[call.k]))
                    THEN IF call.misses + 1 > call.acceptance_radius
                         THEN Done("should_reject", TRUE)
                         ELSE [call EXCEPT !.k = @ + 1, !.misses = @ + 1]
                    ELSE [call EXCEPT !.k = @ + 1]]
    /\ UNCHANGED <<cache_vars, segment_vars>>

ReadLen(i) ==
    /\ readers[i].pc = "len"
    /\ readers' = [readers EXCEPT ![i] = Done("len", len(cache))]
    /\ UNCHANGED <<cache_vars, segment_vars>>

ReadIsEmpty(i) ==
    /\ readers[i].pc = "is_empty"
    /\ readers' = [readers EXCEPT ![i] = Done("is_empty", is_empty(cache))]
    /\ UNCHANGED <<cache_vars, segment_vars>>

ReadGet(i) ==
    /\ readers[i].pc = "get"
    /\ readers' = [readers EXCEPT ![i] =
           Done("get", get(cache.segments[@.s], @.index))]
    /\ UNCHANGED <<cache_vars, segment_vars>>

\* One next() on the iterator of get_setbits; the reader collects what the
\* iterator yields until it is exhausted.
ReadNext(i) ==
    /\ readers[i].pc = "get_setbits"
    /\ LET call  == readers[i]
           found == NextSetBit(cache.segments[call.s], call.from)
       IN  readers' = [readers EXCEPT ![i] =
               IF found = {} THEN Done("get_setbits", call.yielded)
               ELSE [call EXCEPT !.from = Least(found) + 1,
                                 !.yielded = Append(@, Least(found))]]
    /\ UNCHANGED <<cache_vars, segment_vars>>

\* The cache the readers share is built with one add call, before any of
\* them enters a call.
FirstAdd ==
    /\ calls = 0
    /\ \A i \in Readers : readers[i] = Idle
    /\ Add

NextReaders ==
    \/ FirstAdd
    \/ \E i \in Readers :
           \/ ReadBegin(i)
           \/ ReadShouldRejectEntry(i)
           \/ ReadShouldRejectLoop(i)
           \/ ReadLen(i)
           \/ ReadIsEmpty(i)
           \/ ReadGet(i)
           \/ ReadNext(i)

SpecReaders == Init /\ [][NextReaders]_vars

\* --------------------------------------------------------------- claims

\* The 16-bit values of the complete chunks of a buffer, in order.
ChunkValues(bytes) ==
    [k \in 1..Len(chunks_exact(bytes)) |-> from_be_bytes(chunks_exact(bytes)[k])]

Max(a, b) == IF a >= b THEN a ELSE b

\* The number of chunk slots in which two buffers differ; a slot that only
\* one of them has is a slot in which they differ.
Differ(v, q) ==
    LET cv == ChunkValues(v)
        cq == ChunkValues(q)
    IN  Cardinality({k \in 1..Max(Len(cv), Len(cq)) :
                        k > Len(cv) \/ k > Len(cq) \/ cv[k] # cq[k]})

\* Chunk k of a buffer (counted from 0) goes to slot k mod n: the values the
\* buffer has for the slot (counted from 1) of n slots.
InsertedAt(bytes, n, slot) ==
    LET cv == ChunkValues(bytes)
    IN  {cv[k] : k \in {j \in 1..Len(cv) : (j - 1) % n = slot - 1}}

\* The values whose bit lies in a byte that one of two segments holds.
HeldValues(a, b) ==
    {8 * byte_offset + i : byte_offset \in (DOMAIN a.data) \cup (DOMAIN b.data), i \in 0..7}

\* C1: no false rejection. In every reachable state, a query that differs in
\* at most r chunk slots from a buffer added since construction or the last
\* reset is not rejected at radius r.
C1_NoFalseRejection ==
    watched # NoVector =>
        \A q \in Buffers :
            LET d == Differ(watched, q)
            IN  \A r \in Radii : d <= r => ~should_reject(cache, q, r)

\* C1: two segments are held and a query one slot away from an added buffer
\* is rejected at radius 0 and is not at radius 1.
C1_Witness ==
    /\ watched # NoVector
    /\ Len(cache.segments) = 2
    /\ calls = 2
    /\ \E q \in Buffers :
           /\ Differ(watched, q) = 1
           /\ should_reject(cache, q, 0)
           /\ ~should_reject(cache, q, 1)

\* C2: the cache holds as many segments as BloomCache::new was asked for,
\* in every reachable state (after reset too).
C2_SegmentCountFixed == Len(cache.segments) = num_segments

\* C3: after reset, every segment of the cache reports no value at all, len()
\* is 0 and is_empty() is true.
C3_ResetEmpties ==
    last.op = "reset" =>
        /\ \A s \in 1..Len(cache.segments) :
               \A v \in 0..MaxIndex : ~get(cache.segments[s], v)
        /\ len(cache) = 0
        /\ is_empty(cache)

\* C3: a reset that dropped two add calls of a cache built with two segments.
C3_Witness ==
    last.op = "reset" /\ last.dropped = 2 /\ num_segments = 2

\* C4: a radius r >= 0 that is at least the number of segments the cache
\* holds rejects no query, whatever the state (no segment at all included).
C4_LargeRadius ==
    \A q \in Buffers, r \in Radii :
        (r >= 0 /\ r >= Len(cache.segments)) => ~should_reject(cache, q, r)

\* C4: a should_reject call returned false on a cache of two segments where a
\* query is rejected at radius 1 and not at radius 2.
C4_Witness ==
    /\ Len(cache.segments) = 2
    /\ last.op = "should_reject" /\ last.ret = FALSE
    /\ \E q \in Buffers : should_reject(cache, q, 1) /\ ~should_reject(cache, q, 2)

\* C5: right after add(buf) on a cache built with n >= 1 segments, slot
\* k mod n reports the value of every complete chunk k of buf.
C5_CyclicInsertion ==
    (last.op = "add" /\ last.watching /\ num_segments >= 1) =>
        \A k \in 1..Len(ChunkValues(watched)) :
            LET slot == ((k - 1) % num_segments) + 1
            IN  /\ slot \in DOMAIN cache.segments
                /\ get(cache.segments[slot], ChunkValues(watched)[k])

\* C5, while the cache still holds the segments it was built with (no reset
\* yet): the same statement, which the code then meets.
C5_WhileSegmentsHeld ==
    Len(cache.segments) = num_segments => C5_CyclicInsertion

\* C6: in a cache that holds n >= 1 segments and into which one buffer of n
\* chunks was added, a query of n chunks that differs from it in d slots is
\* rejected at the radii 0 <= r < d and at no radius r >= d.
C6_ExactThreshold ==
    (/\ Len(cache.segments) >= 1
     /\ calls = 1
     /\ watched # NoVector
     /\ Len(ChunkValues(watched)) = Len(cache.segments)) =>
        \A q \in Buffers :
            Len(ChunkValues(q)) = Len(cache.segments) =>
                LET d == Differ(watched, q)
                IN  \A r \in Radii :
                        r >= 0 => (should_reject(cache, q, r) <=> r < d)

\* C6: one buffer of two chunks in a cache of two segments and a query that
\* differs from it in both slots: rejected at radius 1, not at radius 2.
C6_Witness ==
    /\ Len(cache.segments) = 2
    /\ calls = 1
    /\ watched # NoVector
    /\ Len(ChunkValues(watched)) = 2
    /\ \E q \in Buffers :
           /\ Len(ChunkValues(q)) = 2
           /\ Differ(watched, q) = 2
           /\ should_reject(cache, q, 1)
           /\ ~should_reject(cache, q, 2)

C8_AddAdditive ==
    [][(last'.op = "add" /\ last'.watching) =>
        /\ Len(cache'.segments) = Len(cache.segments)
        /\ \A s \in 1..Len(cache.segments) :
               LET before   == cache.segments[s]
                   after    == cache'.segments[s]
                   inserted == InsertedAt(watched', Len(cache.segments), s)
               IN  \A v \in HeldValues(before, after) \cup inserted :
                       get(after, v) <=> (get(before, v) \/ v \in inserted)]_vars

\* C8: a second add call on a cache of one segment that already held a value,
\* of a buffer of two chunks.
C8_Witness ==
    /\ last.op = "add" /\ last.watching
    /\ calls = 2
    /\ Len(cache.segments) = 1
    /\ Len(ChunkValues(watched)) = 2
    /\ Cardinality(DOMAIN cache.segments[1].data) >= 3

\* C9: bit round-trip. A new Segment reports no value; after any sequence of
\* set calls get(v) is true exactly for the values v handed to set (seen is
\* empty on a new segment and a repeated set adds nothing to it), a get call
\* returns that, and the assertions of tests::segment_ops pass.
C9_BitRoundTrip ==
    /\ \A v \in 0..MaxIndex : get(segment, v) <=> v \in seen
    /\ seg_last.op = "get" => (seg_last.ret <=> seg_last.index \in seen)
    /\ seg_last.op = "segment_ops" => seg_last.passed

\* C9: get(7) returned true after set was called with 0, 7 and 65535 (0 and
\* 7 lie in the same byte) and with nothing else.
C9_Witness ==
    /\ seg_last.op = "get" /\ seg_last.index = 7 /\ seg_last.ret
    /\ seen = {0, 7, 65535}

\* C10: get_setbits yields exactly the values v with get(v) true, each once,
\* in strictly ascending order (a finite sequence, whatever is set); with
\* every value set it yields the full range 0..65535. The sequence is fixed
\* by the set bits, so iterating again yields it again.
C10_SetBitIteration ==
    seg_last.op = "get_setbits" =>
        LET yielded == seg_last.ret
        IN  /\ \A i \in 1..(Len(yielded) - 1) : yielded[i] < yielded[i + 1]
            /\ {yielded[i] : i \in 1..Len(yielded)}
                   = {v \in 0..MaxIndex : get(segment, v)}
            /\ seen = 0..MaxIndex => yielded = AllIndices

\* C10: get_setbits yielded 65536 values: every value had been set.
C10_Witness ==
    seg_last.op = "get_setbits" /\ Len(seg_last.ret) = MaxIndex + 1

\* The positions k (counted from 1) below both the number of complete chunks
\* of a query and the number of segments held, at which segment k does not
\* report the value of chunk k.
PositionalMisses(self, q) ==
    LET cq == ChunkValues(q)
    IN  {k \in 1..Min(Len(cq), Len(self.segments)) : ~get(self.segments[k], cq[k])}

\* The first n chunks of a buffer (all of it when it has fewer).
FirstChunks(bytes, n) == SubSeq(bytes, 1, Min(Len(bytes), 2 * n))

\* C11: decision rule. With n segments held and a radius 0 <= r < n,
\* should_reject(q, r) is true exactly when more than r positions
\* k < min(chunks of q, n) miss in segment k (counting all misses, with no
\* short cut); the chunks of q past position n - 1 have no influence (q and
\* its first n chunks get the same verdict).
C11_DecisionRule ==
    \A q \in Buffers :
        LET misses == Cardinality(PositionalMisses(cache, q))
            head   == FirstChunks(q, Len(cache.segments))
        IN  \A r \in Radii :
                (0 <= r /\ r < Len(cache.segments)) =>
                    /\ should_reject(cache, q, r) <=> (misses > r)
                    /\ should_reject(cache, q, r) <=> should_reject(cache, head, r)

\* C11: should_reject returned true on a cache of two segments in which a
\* query misses at both positions (rejected at radius 1) and another at one
\* only (rejected at radius 0, not at 1).
C11_Witness ==
    /\ last.op = "should_reject" /\ last.ret = TRUE
    /\ Len(cache.segments) = 2
    /\ \E q \in Buffers :
           Cardinality(PositionalMisses(cache, q)) = 2 /\ should_reject(cache, q, 1)
    /\ \E q \in Buffers :
           /\ Cardinality(PositionalMisses(cache, q)) = 1
           /\ should_reject(cache, q, 0) /\ ~should_reject(cache, q, 1)

\* A buffer without its last byte.
WithoutLast(bytes) == SubSeq(bytes, 1, Len(bytes) - 1)

\* C12: odd-length input is truncated. An add call of an odd-length buffer
\* b ++ [x] leaves the cache exactly as add(b) does (segments and count); in
\* the state before and in the state after, should_reject gives b ++ [x] the
\* verdict it gives b at every radius; and every chunk read is of two bytes
\* (no conversion of a chunk to a u16 fails).
C12_OddTruncated ==
    [][(last'.op = "add" /\ last'.watching /\ Len(watched') % 2 = 1) =>
        LET b == WithoutLast(watched')
        IN  /\ cache' = add(cache, b)
            /\ \A r \in Radii :
                   /\ should_reject(cache, watched', r) = should_reject(cache, b, r)
                   /\ should_reject(cache', watched', r) = should_reject(cache', b, r)
            /\ \A k \in DOMAIN chunks_exact(watched') :
                   Len(chunks_exact(watched')[k]) = 2]_vars

\* C12: the one add call on a cache of two segments was of a buffer of three
\* bytes: the first segment holds a value and the second none.
C12_Witness ==
    /\ last.op = "add" /\ last.watching
    /\ Len(watched) = 3
    /\ calls = 1
    /\ Len(cache.segments) = 2
    /\ cache.segments[1] # SegmentDefault
    /\ cache.segments[2] = SegmentDefault

\* The elements of a finite set of integers in ascending order.
RECURSIVE Ascending(_)
Ascending(S) ==
    IF S = {} THEN <<>> ELSE <<Least(S)>> \o Ascending(S \ {Least(S)})

\* What the call a reader is in returns when it runs alone, from its entry
\* to its return, on the cache as it is.
Sequential(self, call) ==
    CASE call.pc \in {"should_reject", "loop"} ->
             should_reject(self, call.query, call.acceptance_radius)
      [] call.pc = "len" -> len(self)
      [] call.pc = "is_empty" -> is_empty(self)
      [] call.pc = "get" -> get(self.segments[call.s], call.index)
      [] call.pc = "get_setbits" ->
             Ascending(NextSetBit(self.segments[call.s], 0))

\* C13: reads are pure. No step of a reader in should_reject, len, is_empty,
\* Segment::get or get_setbits changes the cache (segment bitmaps, number of
\* segments, vector count) or the Segment; and however the steps of the
\* concurrent readers interleave, the call a reader returns from returns
\* what it returns run alone on the cache.
C13_ReadsPure ==
    [][readers' # readers =>
        /\ cache' = cache
        /\ segment' = segment
        /\ \A i \in Readers :
               (readers'[i].pc = "done" /\ readers[i].pc # "done") =>
                   readers'[i].ret = Sequential(cache, readers[i])]_vars

\* C13: one reader was answered true by should_reject while the other is in
\* the loop of its own should_reject call, past the first segment, and the
\* cache holds the buffer that was added.
C13_Witness ==
    /\ calls = 1
    /\ len(cache) = 1
    /\ readers["r1"] = Done("should_reject", TRUE)
    /\ readers["r2"].pc = "loop"
    /\ readers["r2"].k = 2

\* C14: verdicts only relax as the cache fills. Over an add call, a query
\* that was not rejected at a radius is not rejected at it afterwards (so
\* neither after any number of add calls): a verdict can go from rejected to
\* not rejected through add, never the other way.
C14_VerdictsRelax ==
    [][last'.op = "add" =>
        \A q \in Buffers, r \in Radii :
            ~should_reject(cache, q, r) => ~should_reject(cache', q, r)]_vars

\* C14: after two add calls on a cache of two segments, a query that the
\* new cache rejected at radius 1 is not rejected at radius 0, and another
\* is still rejected.
C14_Witness ==
    /\ last.op = "add"
    /\ calls = 2
    /\ Len(cache.segments) = 2
    /\ \E q \in Buffers :
           /\ should_reject(new(2), q, 1)
           /\ ~should_reject(cache, q, 0)
    /\ \E q \in Buffers : should_reject(cache, q, 1)

\* The radii r >= 0 at which the cache rejects a query.
RejectedAt(self, q) == {r \in Radii : r >= 0 /\ should_reject(self, q, r)}

\* C15: monotonicity in the radius. In every reachable state and for every
\* query, a radius r >= 0 that does not reject leaves every radius r' >= r
\* not rejecting; the radii r >= 0 that reject are an initial interval
\* 0..d-1, possibly empty.
C15_RadiusMonotone ==
    \A q \in Buffers :
        LET rejected == RejectedAt(cache, q)
        IN  /\ \A r \in Radii, r2 \in Radii :
                   (0 <= r /\ r <= r2 /\ r \notin rejected) => r2 \notin rejected
            /\ \E d \in 0..(MaxSegments + 2) : rejected = 0..(d - 1)

\* C15: should_reject was called on a cache of two segments in which one
\* query is rejected at the radii 0 and 1, one at 0 only and one at none.
C15_Witness ==
    /\ last.op = "should_reject"
    /\ Len(cache.segments) = 2
    /\ \E q \in Buffers : RejectedAt(cache, q) = {0, 1}
    /\ \E q \in Buffers : RejectedAt(cache, q) = {0}
    /\ \E q \in Buffers : RejectedAt(cache, q) = {}

\* Negative values of an i32: the nearest to 0, those around the 16-bit
\* limbs, and the two smallest (i32::MIN is -2147483647 - 1).
NegativeRadii ==
    {-1, -2, -32768, -65535, -65536, -65537, -2147483647, -2147483647 - 1}

\* C16: negative radius. In every reachable state, should_reject returns
\* false for every query at every negative radius: cast to usize, the
\* radius is at least 2^63 and so at least the number of segments.
C16_NegativeRadius ==
    \A r \in NegativeRadii :
        /\ UsizeGeq(AsUsize(r), <<32768, 0, 0, 0>>)
        /\ \A q \in Buffers : ~should_reject(cache, q, r)

\* C16: should_reject returned false on a cache of two segments in which a
\* query misses in both segments: it is rejected at the radii 0 and 1 and
\* not at the radius -1.
C16_Witness ==
    /\ last.op = "should_reject" /\ last.ret = FALSE
    /\ Len(cache.segments) = 2
    /\ \E q \in Buffers :
           /\ should_reject(cache, q, 0)
           /\ should_reject(cache, q, 1)
           /\ ~should_reject(cache, q, -1)

\* A segment with the values of a set recorded in it.
RECURSIVE SegmentOf(_, _)
SegmentOf(self, values) ==
    IF values = {} THEN self
    ELSE SegmentOf(set(self, Least(values)), values \ {Least(values)})

\* The cache of n slots that a set of placed chunks describes: chunk k is in
\* slot k mod n, whatever the order and the number of times it was inserted.
CacheOf(n, placed, size) ==
    [segments |-> [s \in 1..n |->
                      SegmentOf(SegmentDefault,
                                {c[2] : c \in {d \in placed : d[1] % n = s - 1}})],
     size     |-> size]

\* C17, its first two parts: in every reachable state add(a); add(b) and
\* add(b); add(a) give the same segments and the same count, and a second
\* add(a) changes the count only.
C17_OrderAndRepeat ==
    /\ \A a \in Buffers, b \in Buffers :
           add(add(cache, a), b) = add(add(cache, b), a)
    /\ \A a \in Buffers :
           /\ add(add(cache, a), a).segments = add(cache, a).segments
           /\ add(add(cache, a), a).size = add(cache, a).size + 1

\* Every verdict is the one the set of (slot, value) pairs inserted since
\* construction or the last reset gives, slot k mod num_segments for chunk k.
VerdictsOfPairs ==
    \A q \in Buffers, r \in Radii :
        should_reject(cache, q, r)
            = should_reject(CacheOf(num_segments, tracked, cache.size), q, r)

\* C17: insertion order does not matter. In every reachable state the order
\* of two add calls and the repetition of one change no segment bit (the
\* repetition changes the count), and every should_reject verdict depends
\* only on the set of (slot, value) pairs inserted since the last reset.
C17_OrderIrrelevant == C17_OrderAndRepeat /\ VerdictsOfPairs

\* C17, while the cache still holds the segments it was built with (no reset
\* yet): the same statement, which the code then meets.
C17_WhileSegmentsHeld ==
    C17_OrderAndRepeat /\ (Len(cache.segments) = num_segments => VerdictsOfPairs)

\* Bit j of a byte, counted from the most significant one (bit 0).
MsbBit(byte, j) == (byte \div Shl1(7 - j)) % 2

\* The eight bits of a byte, the most significant first.
MsbBits(byte) == [j \in 0..7 |-> MsbBit(byte, j)]

\* Every byte a segment holds is one of the 8192 of the array, every 16-bit
\* value has its byte among them, and get(v) is bit v mod 8, counted from
\* the most significant, of byte v div 8.
PackedMsbFirst(self) ==
    /\ \A byte_offset \in DOMAIN self.data : InBounds(byte_offset)
    /\ \A v \in 0..MaxIndex :
           /\ InBounds(v \div 8)
           /\ get(self, v) <=> (MsbBit(Byte(self, v \div 8), v % 8) = 1)

\* C18: MSB-first bit packing. set(v) sets bit v mod 8, counted from the
\* most significant (the mask 1 << (7 - v mod 8)), in byte v div 8, keeps
\* the other bits of that byte and changes no other byte of the 8192; get(v)
\* tests exactly that bit; and the byte index of every 16-bit value is
\* within 0..8191.
C18_MsbFirstPacking ==
    /\ []PackedMsbFirst(segment)
    /\ [][seg_last'.op = "set" =>
            LET v == seg_last'.index
            IN  /\ InBounds(v \div 8)
                /\ MsbBits(Byte(segment', v \div 8))
                       = [MsbBits(Byte(segment, v \div 8)) EXCEPT ![v % 8] = 1]
                /\ \A byte_offset \in 0..(SegmentBytes - 1) :
                       byte_offset # v \div 8 =>
                           Byte(segment', byte_offset) = Byte(segment, byte_offset)]_vars

\* C18: the last of the set calls with 0, 7 and 65535 was set(7): the first
\* byte holds its most and its least significant bit, the last byte its
\* least significant one.
C18_Witness ==
    /\ seg_last.op = "set" /\ seg_last.index = 7
    /\ seen = {0, 7, 65535}
    /\ Byte(segment, 0) = 129
    /\ Byte(segment, SegmentBytes - 1) = 1

====
